---- MODULE Spec2Model ----
(***************************************************************************)
(* A model of the MILCODEC web receiver:                                   *)
(*   - the three extractFromAudio variants (default DSSS/BPSK of           *)
(*     decoder.js, heavy-duty DSSS of unnamed/part_001, 2-FSK of           *)
(*     decoder.js), working on the demodulated slot stream;                *)
(*   - MilcodecCrypto.decrypt / unpackPacket of crypto.js;                 *)
(*   - the MilcodecWebReceiver controller of unnamed/part_000.             *)
(*                                                                         *)
(* A demodulated stream is a sequence over {-1, 0, 1}.  For the DSSS       *)
(* variants an element is the sign of one symbol slot's despreading score  *)
(* (the code decides bit = score > 0 ? 1 : 0); negating every sample of    *)
(* the window negates every score exactly.  For the 2-FSK variant an       *)
(* element is one entry of detectedBits (1 mark, 0 space, -1               *)
(* indeterminate).                                                         *)
(***************************************************************************)
EXTENDS Integers, Sequences, FiniteSets, TLC

\* ------------------------------------------------------------------------
\* Bounds of the model (not program constants)
\* ------------------------------------------------------------------------
MaxL == 2
MaxFlips == 1
MaxTail == 1

\* ------------------------------------------------------------------------
\* Program constants
\* ------------------------------------------------------------------------
SYNC_WORD ==
  <<0,0,0,1,1,0,1,0, 1,1,0,0,1,1,1,1, 1,1,1,1,1,1,0,0, 0,0,0,1,1,1,0,1>>

SYNC_BITS == <<1,0,1,0, 1,0,1,0, 1,1,0,0, 1,1,0,0>>

FREQ_POOL ==
  <<8000, 9000, 10000, 11000, 12000, 13000, 14000, 15000, 16000, 17000, 18000>>

FC_DEFAULT == 12000

SyncCapDefault == 2000
SyncCapHeavy == 5000
SyncEpsHeavy == 2
SyncEpsFSK == 4
LenFieldBits == 16
MaxPayloadLen == 1024

\* ------------------------------------------------------------------------
\* Helpers
\* ------------------------------------------------------------------------
Min2(a, b) == IF a < b THEN a ELSE b

\* A slice of a sequence by 0-based offsets, as Array.prototype.slice(from).
SliceFrom(s, from) == IF from >= Len(s) THEN <<>> ELSE SubSeq(s, from + 1, Len(s))

\* The extractors' result: null, or a byte array.
NullResult == [isNull |-> TRUE, bytes |-> <<>>]
BytesResult(b) == [isNull |-> FALSE, bytes |-> b]

\* bit = score > 0 ? 1 : 0
BitOfScore(s) == IF s > 0 THEN 1 ELSE 0

SliceBits(stream) == [k \in 1..Len(stream) |-> BitOfScore(stream[k])]

\* The window with every sample negated: every slot score changes sign.
NegateStream(stream) == [k \in 1..Len(stream) |-> 0 - stream[k]]

\* (byte << 1) | bit over eight bits starting at 0-based offset off
RECURSIVE PackFrom(_, _, _, _)
PackFrom(bits, off, j, acc) ==
  IF j = 8 THEN acc
  ELSE PackFrom(bits, off, j + 1, 2 * acc + bits[off + j + 1])

bitsToBytes(bits) ==
  [i \in 1..(Len(bits) \div 8) |-> PackFrom(bits, (i - 1) * 8, 0, 0)]

\* len = (len << 1) | bit over the first 16 entries
RECURSIVE ReadLen(_, _, _)
ReadLen(bits, i, acc) ==
  IF i = LenFieldBits THEN acc
  ELSE ReadLen(bits, i + 1, 2 * acc + bits[i + 1])

\* ------------------------------------------------------------------------
\* Default DSSS/BPSK (decoder.js, first MILCODEC)
\* ------------------------------------------------------------------------
NoSync == [found |-> FALSE, index |-> 0, inverted |-> FALSE]

RECURSIVE AllEqual(_, _, _, _, _)
AllEqual(bits, i, j, word, flip) ==
  IF j = Len(word) THEN TRUE
  ELSE IF bits[i + j + 1] # (IF flip THEN 1 - word[j + 1] ELSE word[j + 1]) THEN FALSE
  ELSE AllEqual(bits, i, j + 1, word, flip)

RECURSIVE FindSyncFrom(_, _, _, _)
FindSyncFrom(bits, syncWord, i, limit) ==
  IF i >= limit THEN NoSync
  ELSE IF AllEqual(bits, i, 0, syncWord, FALSE)
       THEN [found |-> TRUE, index |-> i, inverted |-> FALSE]
  ELSE IF AllEqual(bits, i, 0, syncWord, TRUE)
       THEN [found |-> TRUE, index |-> i, inverted |-> TRUE]
  ELSE FindSyncFrom(bits, syncWord, i + 1, limit)

\* the for loop over i, run a sync word's length of offsets at a time
RECURSIVE FindSyncBlocks(_, _, _, _)
FindSyncBlocks(bits, syncWord, i, limit) ==
  IF i >= limit THEN NoSync
  ELSE LET r == FindSyncFrom(bits, syncWord, i, Min2(i + Len(syncWord), limit))
       IN  IF r.found THEN r ELSE FindSyncBlocks(bits, syncWord, i + Len(syncWord), limit)

\* the same loop, run a span of Len(syncWord) such blocks at a time
RECURSIVE FindSyncSpans(_, _, _, _)
FindSyncSpans(bits, syncWord, i, limit) ==
  IF i >= limit THEN NoSync
  ELSE LET span == Len(syncWord) * Len(syncWord)
           r == FindSyncBlocks(bits, syncWord, i, Min2(i + span, limit))
       IN  IF r.found THEN r ELSE FindSyncSpans(bits, syncWord, i + span, limit)

\* (mutant) the search is not capped
findSyncWordUncapped(bits, syncWord) ==
  FindSyncSpans(bits, syncWord, 0, Len(bits) - Len(syncWord))

findSyncWord(bits, syncWord) ==
  FindSyncSpans(bits, syncWord, 0, Min2(Len(bits) - Len(syncWord), SyncCapDefault))

\* The body of the carrier loop once the bits of one carrier are decided:
\* sync search, inversion, byte alignment, bitsToBytes.  No length field is
\* read; every whole byte after the sync word is returned.
ExtractAtCarrier(stream) ==
  LET rawBits == SliceBits(stream)
      syncResult == findSyncWord(rawBits, SYNC_WORD)
      after == SliceFrom(rawBits, syncResult.index + Len(SYNC_WORD))
      aligned0 == IF syncResult.inverted
                  THEN [k \in 1..Len(after) |-> 1 - after[k]]
                  ELSE after
      rem == Len(aligned0) % 8
      aligned == IF rem # 0 THEN SubSeq(aligned0, 1, Len(aligned0) - rem) ELSE aligned0
  IN  IF syncResult.found THEN BytesResult(bitsToBytes(aligned)) ELSE NullResult

\* (mutant) the whole pool is scanned whatever autoScan says
ScanListPool(autoScanOn) == FREQ_POOL

ScanList(autoScanOn) == IF autoScanOn THEN FREQ_POOL ELSE <<FC_DEFAULT>>

\* the for loop over scanList from its k-th carrier on: the value returned and
\* the carriers demodulated on the way
RECURSIVE ScanLoop(_, _, _, _)
ScanLoop(win, scanList, k, tried) ==
  IF k > Len(scanList) THEN [result |-> NullResult, tried |-> tried]
  ELSE LET r == ExtractAtCarrier(win[scanList[k]])
       IN  IF ~r.isNull THEN [result |-> r, tried |-> Append(tried, scanList[k])]
           ELSE ScanLoop(win, scanList, k + 1, Append(tried, scanList[k]))

ScanFrom(win, scanList, k) == ScanLoop(win, scanList, k, <<>>).result

\* win maps each carrier of the pool to the slot scores its demodulation gives
ExtractDefault(win, autoScanOn) == ScanFrom(win, ScanList(autoScanOn), 1)

\* ------------------------------------------------------------------------
\* Triple-redundancy payload (heavy-duty and 2-FSK)
\* ------------------------------------------------------------------------
\* (mutant) the vote asks for all three copies
MajorityUnanimous(b1, b2, b3) == IF b1 + b2 + b3 >= 3 THEN 1 ELSE 0

Majority(b1, b2, b3) == IF b1 + b2 + b3 >= 2 THEN 1 ELSE 0

\* Clean up -1s (2-FSK only; a no-op on 0/1)
Clean(b) == IF b < 0 THEN 0 ELSE b

\* An index past the end of an array reads undefined, the sum of the three
\* copies is then NaN, and NaN >= 2 is false.
VotePayload(data, len) ==
  LET bitLen == len * 8
      dataStart == LenFieldBits
  IN  [i \in 1..bitLen |->
         IF dataStart + 2 * bitLen + i > Len(data) THEN 0
         ELSE Majority(Clean(data[dataStart + i]),
                       Clean(data[dataStart + bitLen + i]),
                       Clean(data[dataStart + 2 * bitLen + i]))]

\* (mutant) no frame is taken for incomplete
IncompleteNever(have, need) == FALSE

\* the "Incomplete packet" test: fewer bits than the frame needs
Incomplete(have, need) == have < need

LenInRange(len) == ~(len <= 0 \/ len > MaxPayloadLen)

\* ------------------------------------------------------------------------
\* Heavy-duty DSSS (unnamed/part_001)
\* ------------------------------------------------------------------------
RECURSIVE CountErrors(_, _, _, _, _)
CountErrors(bits, i, j, word, acc) ==
  IF j = Len(word) THEN acc
  ELSE CountErrors(bits, i, j + 1, word,
                   acc + (IF bits[i + j + 1] # word[j + 1] THEN 1 ELSE 0))

InvWord(word) == [k \in 1..Len(word) |-> 1 - word[k]]

RECURSIVE HeavySyncFrom(_, _, _)
HeavySyncFrom(bits, i, limit) ==
  IF i >= limit THEN NoSync
  ELSE IF CountErrors(bits, i, 0, SYNC_WORD, 0) <= SyncEpsHeavy
       THEN [found |-> TRUE, index |-> i, inverted |-> FALSE]
  ELSE IF CountErrors(bits, i, 0, InvWord(SYNC_WORD), 0) <= SyncEpsHeavy
       THEN [found |-> TRUE, index |-> i, inverted |-> TRUE]
  ELSE HeavySyncFrom(bits, i + 1, limit)

\* the for loop over i, run 32 offsets at a time
RECURSIVE HeavySyncBlocks(_, _, _)
HeavySyncBlocks(bits, i, limit) ==
  IF i >= limit THEN NoSync
  ELSE LET r == HeavySyncFrom(bits, i, Min2(i + Len(SYNC_WORD), limit))
       IN  IF r.found THEN r ELSE HeavySyncBlocks(bits, i + Len(SYNC_WORD), limit)

\* the same loop, run a span of 32 such blocks at a time
RECURSIVE HeavySyncSpans(_, _, _)
HeavySyncSpans(bits, i, limit) ==
  IF i >= limit THEN NoSync
  ELSE LET span == Len(SYNC_WORD) * Len(SYNC_WORD)
           r == HeavySyncBlocks(bits, i, Min2(i + span, limit))
       IN  IF r.found THEN r ELSE HeavySyncSpans(bits, i + span, limit)

HeavySync(bits) == HeavySyncSpans(bits, 0, Min2(Len(bits) - 32, SyncCapHeavy))

ExtractHeavy(stream) ==
  LET bits == SliceBits(stream)
      sync == HeavySync(bits)
      raw0 == SliceFrom(bits, sync.index + 32)
      rawData == IF sync.inverted THEN [k \in 1..Len(raw0) |-> 1 - raw0[k]] ELSE raw0
      len == ReadLen(rawData, 0, 0)
      totalBitsNeeded == LenFieldBits + len * 8 * 3
  IN  IF ~sync.found THEN NullResult
      ELSE IF Len(rawData) < LenFieldBits THEN NullResult
      ELSE IF ~LenInRange(len) THEN NullResult
      ELSE IF Incomplete(Len(bits), sync.index + 32 + totalBitsNeeded) THEN NullResult
      ELSE BytesResult(bitsToBytes(VotePayload(rawData, len)))

\* ------------------------------------------------------------------------
\* 2-FSK (decoder.js, second MILCODEC)
\* ------------------------------------------------------------------------
\* targetSyncPattern: every sync bit twice (2x oversampling)
TargetSyncPattern == [k \in 1..(2 * Len(SYNC_BITS)) |-> SYNC_BITS[(k + 1) \div 2]]

RECURSIVE FskSyncFrom(_, _, _)
FskSyncFrom(rawStream, i, limit) ==
  IF i >= limit THEN -1
  ELSE IF CountErrors(rawStream, i, 0, TargetSyncPattern, 0) <= SyncEpsFSK THEN i
  ELSE FskSyncFrom(rawStream, i + 1, limit)

\* while (cursor < rawStream.length) { push(rawStream[cursor]); cursor += 2 }
Downsample(rawStream, cursor) ==
  IF cursor >= Len(rawStream) THEN <<>>
  ELSE [k \in 1..((Len(rawStream) - cursor + 1) \div 2) |-> rawStream[cursor + 2 * (k - 1) + 1]]

ExtractFSK(rawStream) ==
  LET syncIndex == FskSyncFrom(rawStream, 0, Len(rawStream) - Len(TargetSyncPattern))
      dataStream == Downsample(rawStream, syncIndex + Len(TargetSyncPattern) + 1)
      lenBits == [k \in 1..Len(dataStream) |-> IF dataStream[k] = 1 THEN 1 ELSE 0]
      len == ReadLen(lenBits, 0, 0)
  IN  IF syncIndex = -1 THEN NullResult
      ELSE IF Len(dataStream) < LenFieldBits THEN NullResult
      ELSE IF ~LenInRange(len) THEN NullResult
      ELSE IF Incomplete(Len(dataStream), LenFieldBits + len * 8 * 3) THEN NullResult
      ELSE BytesResult(bitsToBytes(VotePayload(dataStream, len)))

\* ------------------------------------------------------------------------
\* Inputs of the extractors: a transmitted frame, the channel's damage, and
\* the stream the demodulator hands to the synchronizer
\* ------------------------------------------------------------------------
Variants == {"default", "heavy", "fsk"}

\* payload bytes used to build frames (neither is a bit palindrome)
ByteSet == {163, 92}

\* length fields that do not announce the payload that follows
BadLens == {0, 1025, 2000, 65535}

ByteBits(b) == [j \in 1..8 |-> (b \div (2 ^ (8 - j))) % 2]

LenBits(n) == [j \in 1..LenFieldBits |-> (n \div (2 ^ (LenFieldBits - j))) % 2]

RECURSIVE BytesToBits(_)
BytesToBits(bs) == IF bs = <<>> THEN <<>> ELSE ByteBits(Head(bs)) \o BytesToBits(Tail(bs))

\* One payload copy with the channel's damage: a flipped bit, or (2-FSK) a
\* symbol the tone detector could not decide (-1).
DamagedCopy(bits, copy, damage) ==
  [i \in 1..Len(bits) |->
     IF \E d \in damage : d.index = i /\ d.copy = copy
     THEN (IF (CHOOSE d \in damage : d.index = i /\ d.copy = copy).kind = "indet"
           THEN -1 ELSE 1 - bits[i])
     ELSE bits[i]]

\* SYNC + LEN + three payload copies + tail, as symbols in {-1 (indet), 0, 1}
SyncOf(v) == IF v = "fsk" THEN SYNC_BITS ELSE SYNC_WORD

\* The capture may end inside the frame: of a frame with cut >= 0 only the
\* sync word and the cut symbols after it are heard.
FrameSymbols(t) ==
  LET pb == BytesToBits(t.data)
      whole == SyncOf(t.variant)
                 \o LenBits(t.lenField)
                 \o DamagedCopy(pb, 1, t.damage) \o DamagedCopy(pb, 2, t.damage)
                 \o DamagedCopy(pb, 3, t.damage)
                 \o t.tail
  IN  IF t.cut < 0 THEN whole ELSE SubSeq(whole, 1, Len(SyncOf(t.variant)) + t.cut)

\* DSSS: a 1 bit despreads to a positive score and a 0 bit to a negative one
\* (the other way round on an inverted carrier); a silent slot scores 0.
\* 2-FSK: every symbol is seen twice by the half-symbol stride.
Modulate(t) ==
  LET sym == FrameSymbols(t)
  IN  IF t.variant = "fsk"
      THEN [k \in 1..(2 * Len(sym)) |-> sym[(k + 1) \div 2]]
      ELSE [k \in 1..Len(sym) |->
              IF k \in t.silent THEN 0
              ELSE IF (sym[k] = 1) = (~t.inverted) THEN 1 ELSE -1]

Payloads == UNION {[1..n -> ByteSet] : n \in 0..MaxL}

\* Every set of at most k damaged bits, no payload index damaged twice
RECURSIVE DamagesUpTo(_, _)
DamagesUpTo(one, k) ==
  IF k = 0 THEN {{}}
  ELSE LET smaller == DamagesUpTo(one, k - 1)
       IN  smaller \cup
           {D \cup {d} : D \in smaller,
                         d \in one}

Damages(n, kinds) ==
  LET one == {[index |-> i, copy |-> c, kind |-> k] :
                i \in 1..(8 * n), c \in 1..3, k \in kinds}
  IN  {D \in DamagesUpTo(one, MaxFlips) : \A d, e \in D : d.index = e.index => d = e}

\* the payload of the damaged frames: n bytes, the two of ByteSet in turn
FramePayload(n) == [i \in 1..n |-> IF i % 2 = 1 THEN 163 ELSE 92]

Tails == UNION {[1..n -> {0, 1}] : n \in 0..MaxTail}

FrameLen(t) == Len(FrameSymbols(t))

Polarities(v) == IF v = "fsk" THEN {FALSE} ELSE BOOLEAN

DamageKinds(v) == IF v = "fsk" THEN {"flip", "indet"} ELSE {"flip"}

Tx(v, d, lf, dm, tl, inv, sl, as) ==
  [variant |-> v, data |-> d, lenField |-> lf, damage |-> dm, tail |-> tl,
   inverted |-> inv, silent |-> sl, autoScan |-> as, cut |-> -1,
   carrier |-> FC_DEFAULT, decoy |-> 0]

\* the frame sent on carrier f while a second sender is on carrier g (0: none)
OnCarriers(t, f, g) == [t EXCEPT !.carrier = f, !.decoy = g]

\* what the second sender transmits: a frame of the same length with other
\* payload bytes, in the opposite polarity
DecoyOf(t) ==
  [t EXCEPT !.data = [i \in 1..Len(t.data) |-> 92], !.inverted = ~t.inverted,
            !.damage = {}, !.silent = {}]

Truncated(t, k) == [t EXCEPT !.cut = k]

\* Well-formed frames, each payload bit damaged in at most one copy.
VoteInputs(maxLen) ==
  UNION {UNION {{Tx(v, FramePayload(n), n, dm, <<>>, inv, {}, TRUE) :
                   dm \in Damages(n, DamageKinds(v)),
                   inv \in Polarities(v)} :
                n \in 1..maxLen} :
         v \in {"heavy", "fsk"}}

\* Undamaged frames whose length field is the payload's, out of range, or one
\* more than the payload that follows (a truncated frame), with a tail.
LenInputs ==
  UNION {UNION {{Tx(v, d, lf, {}, tl, inv, {}, as) :
                   lf \in BadLens \cup {Len(d), Len(d) + 1}, tl \in Tails,
                   inv \in Polarities(v),
                   as \in (IF v = "default" THEN BOOLEAN ELSE {TRUE})} :
                d \in Payloads} :
         v \in Variants}

\* DSSS frames with one silent slot (despreading score exactly 0).
SilentInputs ==
  UNION {UNION {{Tx(v, FramePayload(n), n, {}, <<>>, inv, {k}, TRUE) :
                   k \in 1..(Len(SYNC_WORD) + LenFieldBits + 24 * n),
                   inv \in BOOLEAN} :
                n \in 0..MaxL} :
         v \in {"default", "heavy"}}

\* Frames of the voting extractors cut off at every point after the sync word.
TruncInputs(maxLen) ==
  UNION {UNION {{Truncated(Tx(v, FramePayload(n), n, {}, <<>>, inv, {}, TRUE), k) :
                   k \in 0..(LenFieldBits + 24 * n - 1),
                   inv \in Polarities(v)} :
                n \in 1..maxLen} :
         v \in {"heavy", "fsk"}}

\* a carrier below the pool, and the pool's first, default and last carriers
TxCarriers == {7000, 8000, FC_DEFAULT, 18000}

\* DSSS frames on one carrier, alone or with a second sender on another.
ScanInputs ==
  UNION {{OnCarriers(Tx("default", FramePayload(1), 1, {}, <<>>, inv, {}, as), f, g) :
            inv \in BOOLEAN, as \in BOOLEAN, g \in (TxCarriers \cup {0}) \ {f}} :
         f \in TxCarriers}

\* the frames with payloads of at most maxLen bytes
TxInputs(maxLen) ==
  VoteInputs(maxLen) \cup LenInputs \cup SilentInputs \cup TruncInputs(maxLen)
    \cup ScanInputs

\* ------------------------------------------------------------------------
\* JavaScript values met in records and JSON bodies
\* ------------------------------------------------------------------------
Str(x) == [t |-> "string", v |-> x]
Num(x) == [t |-> "number", v |-> x]
Undefined == [t |-> "undefined", v |-> "undefined"]
JsNull == [t |-> "null", v |-> "null"]
JsFalse == [t |-> "boolean", v |-> "false"]

\* ToBoolean on the values above
Truthy(x) ==
  CASE x.t = "string"  -> x.v # ""
    [] x.t = "number"  -> x.v # "0"
    [] x.t = "boolean" -> x.v = "true"
    [] OTHER           -> FALSE

\* a || b
OrElse(a, b) == IF Truthy(a) THEN a ELSE b

\* ------------------------------------------------------------------------
\* Sealed blobs, described by what an AEAD can tell of them
\* ------------------------------------------------------------------------
RS_SYMBOLS == 32
MinBlobLen == 28
NonceLenPrimary == 12
NonceLenNaCl == 24
TagLen == 16
PacketHeaderLen == 65

\* JSON bodies (the text after the 65 header bytes, as JSON.parse sees it)
JsonMalformed == [kind |-> "malformed", p |-> Undefined, m |-> Undefined, f |-> Undefined]
JsonNull == [kind |-> "null", p |-> Undefined, m |-> Undefined, f |-> Undefined]
JsonScalar == [kind |-> "scalar", p |-> Undefined, m |-> Undefined, f |-> Undefined]
JsonObject(p, m, f) == [kind |-> "object", p |-> p, m |-> m, f |-> f]

JsonPValues == {Undefined, Str("ROUTINE"), Str("FLASH"), Str("URGENT"), Num("7")}
JsonMValues == {Undefined, Str("HELLO"), Num("7"), Num("0")}
JsonFValues == {Undefined, Str("map.png"), Str("")}

JsonBodies ==
  {JsonMalformed, JsonNull, JsonScalar}
    \cup {JsonObject(p, m, f) : p \in JsonPValues, m \in JsonMValues, f \in JsonFValues}

TypeBytes == 0..6

\* A plaintext packet: type(1) + signature(64) + utf8 json.  A packet of
\* fewer than 65 bytes has no JSON text; one of exactly 65 has the empty text.
Packets ==
  {[len |-> n, typeByte |-> 1, signed |-> FALSE, json |-> JsonMalformed] : n \in {0, 64, 65}}
    \cup {[len |-> 90, typeByte |-> tb, signed |-> sg, json |-> j] :
            tb \in TypeBytes, sg \in BOOLEAN, j \in JsonBodies}

\* An envelope is either bytes no key opens (length len), or what a sender
\* sealed: nonce + ciphertext + tag, by a cipher, with a nonce layout
\* ("n12": 12 nonce bytes, read by secretbox as the nonce zero-extended to 24;
\* "n24": 24 nonce bytes), intact or tampered with after sealing.
GarbageLens == {0, 1, 27, 28, 32, 33, 39, 40, 59, 60, 100}

Garbage(n) ==
  [kind |-> "garbage", len |-> n, cipher |-> "none", layout |-> "none",
   intact |-> FALSE, packet |-> [len |-> 0, typeByte |-> 0, signed |-> FALSE, json |-> JsonMalformed]]

NonceLenOf(layout) == IF layout = "n24" THEN NonceLenNaCl ELSE NonceLenPrimary

Sealed(c, l, ok, pk) ==
  [kind |-> "sealed", len |-> NonceLenOf(l) + TagLen + pk.len, cipher |-> c, layout |-> l,
   intact |-> ok, packet |-> pk]

Envelopes ==
  {Garbage(n) : n \in GarbageLens}
    \cup {Sealed("secretbox", "n12", ok, pk) : ok \in BOOLEAN, pk \in Packets}
    \cup {Sealed("secretbox", "n24", TRUE, pk) : pk \in Packets}
    \cup {Sealed("chacha", "n12", TRUE, pk) : pk \in Packets}

\* A link-layer payload: an envelope, with or without 32 trailing parity bytes
Blobs == {[envelope |-> e, trailer |-> tr] : e \in Envelopes, tr \in {0, RS_SYMBOLS}}

BlobLen(b) == b.envelope.len + b.trailer

\* The runtime: is the nacl global defined, does crypto.subtle import the key
Runtimes == {[nacl |-> TRUE, subtle |-> TRUE], [nacl |-> TRUE, subtle |-> FALSE],
             [nacl |-> FALSE, subtle |-> TRUE]}

\* nacl.secretbox.open on the first n bytes of blob b split nonceLen/rest:
\* the plaintext when those bytes are exactly an intact secretbox envelope
\* with that nonce layout, null otherwise.
SecretboxOpens(b, n, nonceLen) ==
  /\ b.envelope.kind = "sealed"
  /\ b.envelope.cipher = "secretbox"
  /\ b.envelope.intact
  /\ NonceLenOf(b.envelope.layout) = nonceLen
  /\ b.envelope.len = n

\* ------------------------------------------------------------------------
\* MilcodecCrypto (crypto.js, first object): FEC strip, secretbox, Web Crypto
\* ------------------------------------------------------------------------
MakeRecord(content, priority, status, msgType, filename, verified) ==
  [content |-> content, priority |-> priority, status |-> status,
   msgType |-> msgType, filename |-> filename, verified |-> verified]

errorResult(message) ==
  MakeRecord(Str(message), Str("ROUTINE"), Str("ERROR"), Str("TEXT"), JsNull, JsFalse)

\* MILCODEC.MSG_TYPES[typeByte] || 'TEXT'
MsgTypeOf(typeByte) ==
  CASE typeByte = 1 -> "TEXT"
    [] typeByte = 2 -> "LOCATION"
    [] typeByte = 3 -> "FILE"
    [] typeByte = 4 -> "IMAGE"
    [] typeByte = 5 -> "ACK"
    [] OTHER        -> "TEXT"

\* String(x) inside a template literal
ToText(x) == x.v

unpackPacket(packet) ==
  LET msgType == MsgTypeOf(packet.typeByte)
      data == packet.json
      priority == OrElse(data.p, Str("ROUTINE"))
      filename == OrElse(data.f, Str("unknown"))
  IN  IF packet.len < PacketHeaderLen THEN errorResult("Invalid packet")
      ELSE IF data.kind \in {"malformed", "null"} THEN errorResult("JSON parse failed")
      ELSE IF msgType \in {"FILE", "IMAGE"}
           THEN MakeRecord(Str("File: " \o ToText(filename)), priority, Str("OK"),
                           Str(msgType), filename, JsFalse)
           ELSE MakeRecord(OrElse(data.m, Str("")), priority, Str("OK"),
                           Str(msgType), JsNull, JsFalse)

\* fecDecode, and decrypt's fallback to the blob itself: the number of
\* leading bytes decrypt goes on with
fecDecodedLen(n) == IF n <= RS_SYMBOLS THEN n ELSE n - RS_SYMBOLS

\* What decrypt returns: a record, or (async decryptWithWebCrypto) a Promise
\* that later fulfils with a record.  calls lists the primitives invoked.
Returned(kind, rec, calls) == [kind |-> kind, rec |-> rec, calls |-> calls]

\* nothing returned yet
NoReturn == Returned("none", errorResult(""), <<>>)

decryptWithWebCrypto(rt) ==
  IF rt.subtle THEN errorResult("ChaCha20 not supported in this browser")
  ELSE errorResult("Web Crypto failed")

decrypt(b, rt) ==
  LET n == fecDecodedLen(BlobLen(b))
  IN  IF BlobLen(b) < MinBlobLen THEN Returned("record", errorResult("Corrupt Data"), <<>>)
      ELSE IF ~rt.nacl
           THEN Returned("promise", decryptWithWebCrypto(rt), <<"webcrypto">>)
      ELSE IF ~SecretboxOpens(b, n, NonceLenPrimary)
           THEN Returned("promise", decryptWithWebCrypto(rt), <<"secretbox", "webcrypto">>)
      ELSE Returned("record", unpackPacket(b.envelope.packet), <<"secretbox">>)

\* ------------------------------------------------------------------------
\* MilcodecCrypto (crypto.js, second object): NaCl secretbox only
\* ------------------------------------------------------------------------
NaClRecord(content, status, priority) ==
  MakeRecord(content, priority, status, Undefined, Undefined, Undefined)

decryptNaCl(b, rt) ==
  LET pk == b.envelope.packet
      data == pk.json
  IN  IF BlobLen(b) < NonceLenNaCl + TagLen
        THEN Returned("record", NaClRecord(Str("Too short"), Str("ERROR"), Str("ROUTINE")), <<>>)
      ELSE IF ~rt.nacl
        THEN Returned("record",
               NaClRecord(Str("Error: nacl is not defined"), Str("ERROR"), Str("ROUTINE")), <<>>)
      ELSE IF ~SecretboxOpens(b, BlobLen(b), NonceLenNaCl)
        THEN Returned("record",
               NaClRecord(Str("Decryption failed"), Str("ERROR"), Str("ROUTINE")), <<"secretbox">>)
      ELSE IF pk.len <= PacketHeaderLen \/ data.kind = "malformed"
        THEN Returned("record",
               NaClRecord(Str("Error: JSON.parse SyntaxError"), Str("ERROR"), Str("ROUTINE")),
               <<"secretbox">>)
      ELSE IF data.kind = "null"
        THEN Returned("record",
               NaClRecord(Str("Error: data is null"), Str("ERROR"), Str("ROUTINE")),
               <<"secretbox">>)
      ELSE Returned("record",
             MakeRecord(OrElse(data.m, Str("")), OrElse(data.p, Str("ROUTINE")), Str("OK"),
                        Str(IF pk.typeByte = 1 THEN "TEXT" ELSE "OTHER"), Undefined, JsFalse),
             <<"secretbox">>)

\* ------------------------------------------------------------------------
\* State
\* ------------------------------------------------------------------------
\* extractor runs: the input, the demodulated stream, the two results
VARIABLES tx, stream, out, outNeg, dpc

\* the carriers the latest extractor run demodulated, in order
VARIABLES scan

\* synchronizer runs: the bit stream (and how it was built), the result
VARIABLES syncIn, syncOut, spc

\* decrypt runs: the blob, the runtime, which MilcodecCrypto, what it returned
VARIABLES blob, runtime, build, ret, cpc

\* MilcodecWebReceiver: its fields, the script processors connected so far,
\* the microphone starts still pending (audioContext.resume().then(...) and
\* the getUserMedia prompt), the rx-status text
VARIABLES isPowered, isUnlocked, isListening, audioBuffer, messages,
          unlockClicks, lastClickTime, modalOpen, rxStatus,
          processors, pendingStarts

\* the frames the transmitter has sent so far
VARIABLES framesSent

\* passcodeInput.value, and whether the gap before the latest secret click
\* was under the click window ("none" before the first click)
VARIABLES passcode, lastGap

\* observations of the last step: what the last audio burst appended, what
\* the last processAudioBuffer run did
VARIABLES burst, cycle

svars == <<syncIn, syncOut, spc>>
dvars == <<tx, stream, out, outNeg, dpc, scan, svars>>
cvars == <<blob, runtime, build, ret, cpc>>
rvars == <<isPowered, isUnlocked, isListening, audioBuffer, messages,
           unlockClicks, lastClickTime, modalOpen, rxStatus,
           processors, pendingStarts, framesSent, passcode, lastGap, burst, cycle>>
vars == <<dvars, cvars, rvars>>

\* The audio window as the default decoder sees it: the frame s on its
\* carrier, the second sender's frame d on its own, digital silence on the
\* other carriers of the pool.
Window(t, s, d) ==
  [f \in {FREQ_POOL[k] : k \in 1..Len(FREQ_POOL)} |->
     IF f = t.carrier THEN s
     ELSE IF f = t.decoy THEN d
     ELSE [k \in 1..Len(s) |-> 0]]

\* MILCODEC.extractFromAudio of the variant in use
ExtractFromAudio(t, s, d) ==
  CASE t.variant = "default" -> ExtractDefault(Window(t, s, d), t.autoScan)
    [] t.variant = "heavy"   -> ExtractHeavy(s)
    [] t.variant = "fsk"     -> ExtractFSK(s)

\* the carriers extractFromAudio demodulated (the default extractor's loop)
CarriersTried(t, s, d) ==
  IF t.variant = "default"
  THEN ScanLoop(Window(t, s, d), ScanList(t.autoScan), 1, <<>>).tried
  ELSE <<>>

\* what a synchronizer run leaves behind: its result and the highest bit
\* index its loops read (-1: none)
SyncRun(r, lastRead) == [result |-> r, lastRead |-> lastRead]

SyncInput(v, lead, hasWord, flips, inv, bits) ==
  [variant |-> v, lead |-> lead, hasWord |-> hasWord, flips |-> flips, inverted |-> inv,
   bits |-> bits]

\* no synchronizer run in progress
SIdle ==
  /\ syncIn = SyncInput("default", 0, FALSE, {}, FALSE, <<>>)
  /\ syncOut = SyncRun(NoSync, -1)
  /\ spc = "idle"

\* no extractor run in progress
DIdle ==
  /\ SIdle
  /\ tx = Tx("default", <<>>, 0, {}, <<>>, FALSE, {}, TRUE)
  /\ stream = <<>>
  /\ out = NullResult
  /\ outNeg = NullResult
  /\ scan = <<>>
  /\ dpc = {}

\* no decrypt run in progress
CIdle ==
  /\ blob = [envelope |-> Garbage(0), trailer |-> 0]
  /\ runtime = [nacl |-> TRUE, subtle |-> TRUE]
  /\ build = "primary"
  /\ ret = NoReturn
  /\ cpc = "idle"

\* ------------------------------------------------------------------------
\* MilcodecWebReceiver (unnamed/part_000)
\* ------------------------------------------------------------------------
MaxPending == 1
MaxProcessors == 2
MaxFrames == 1
MaxFrameSlot == 2

FS == 44100
bufferSize == 4096
ClickWindowMs == 500

\* this.autoScan, set in the constructor and never changed
RxAutoScan == TRUE

\* the runtime the page runs in
RxRuntime == [nacl |-> TRUE, subtle |-> TRUE]

\* What one 4096-sample chunk carries: nothing the decoder locks on, or the
\* start of a frame, given by the carriers on whose demodulated bit stream
\* the sync word shows and by the bytes that follow it.
Chunk(locks, b) == [locks |-> locks, blob |-> b]

Quiet == Chunk({}, [envelope |-> Garbage(0), trailer |-> 0])

TextPacket(p, m) ==
  [len |-> 90, typeByte |-> 1, signed |-> FALSE, json |-> JsonObject(p, m, Undefined)]

SealedBlob(pk) == [envelope |-> Sealed("secretbox", "n12", TRUE, pk), trailer |-> RS_SYMBOLS]

GarbageBlob(n) == [envelope |-> Garbage(n), trailer |-> 0]

\* The frames on the air: a text message heard on three carriers, a message
\* whose JSON priority is a number, a blob too short to decrypt, a blob that
\* does not authenticate.
RxFrames ==
  {Chunk({9000, 12000, 13000}, SealedBlob(TextPacket(Str("FLASH"), Str("HELLO")))),
   Chunk({12000}, SealedBlob(TextPacket(Num("7"), Str("HELLO")))),
   Chunk({12000}, GarbageBlob(1)),
   Chunk({12000}, GarbageBlob(40))}

\* extractFromAudio on the concatenated chunks: the carriers are tried in
\* scan order and the first one that shows a sync word returns the bytes of
\* the first frame on it; later carriers are not tried.
RECURSIVE ExtractWindowFrom(_, _, _)
ExtractWindowFrom(window, scanList, k) ==
  IF k > Len(scanList) THEN [isNull |-> TRUE, blob |-> Quiet.blob]
  ELSE LET hits == {i \in 1..Len(window) : scanList[k] \in window[i].locks}
           first == CHOOSE i \in hits : \A j \in hits : i <= j
       IN  IF hits # {} THEN [isNull |-> FALSE, blob |-> window[first].blob]
           ELSE ExtractWindowFrom(window, scanList, k + 1)

ExtractWindow(window, autoScanOn) == ExtractWindowFrom(window, ScanList(autoScanOn), 1)

\* result.priority.toLowerCase() is a TypeError unless priority is a string
addMessageThrows(result) == result.priority.t # "string"

MessageOf(result) ==
  [content |-> result.content, priority |-> result.priority,
   msgType |-> result.msgType, verified |-> result.verified]

\* (mutant) the message is put in the list twice
addMessageTwice(msgs, result) == <<MessageOf(result), MessageOf(result)>> \o msgs

\* this.messages.unshift(message)
addMessage(msgs, result) == <<MessageOf(result)>> \o msgs

NoCycle ==
  [ran |-> FALSE, extracted |-> FALSE, ret |-> NoReturn, delivered |-> <<>>,
   threw |-> FALSE, locks |-> 0, bufferAfter |-> 0, statusAfter |-> "",
   listeningBefore |-> FALSE, listeningAfter |-> FALSE, window |-> <<>>]

\* discarded: the chunks a stopMicrophone threw away
NoBurst == [seen |-> FALSE, listening |-> FALSE, appended |-> 0, discarded |-> 0]

\* The part of the receiver an audio callback touches
AudioState(buf, msgs, status, cyc, appended) ==
  [buf |-> buf, msgs |-> msgs, status |-> status, cycle |-> cyc, appended |-> appended]

\* result.status === 'OK' (a Promise has no status)
StatusIsOk(result) == result.kind = "record" /\ result.rec.status = Str("OK")

\* (mutant) every decrypt result is handed to addMessage
DeliversAlways(result) == result.kind = "record"

\* the results processAudioBuffer hands to addMessage
Delivers(result) == StatusIsOk(result)

processAudioBuffer(st, listening) ==
  LET combined == st.buf
      payload == ExtractWindow(combined, RxAutoScan)
      result == IF payload.isNull THEN NoReturn ELSE decrypt(payload.blob, RxRuntime)
      deliver == ~payload.isNull /\ Delivers(result)
      threw == deliver /\ addMessageThrows(result.rec)
      carriers == UNION {combined[i].locks : i \in 1..Len(combined)}
  IN  AudioState(<<>>,
                 IF deliver THEN addMessage(st.msgs, result.rec) ELSE st.msgs,
                 IF threw THEN "SCANNING/DECODING..." ELSE "LISTENING...",
                 [ran |-> TRUE, extracted |-> ~payload.isNull, ret |-> result,
                  delivered |-> IF deliver THEN <<result.rec.status>> ELSE <<>>,
                  threw |-> threw, locks |-> Cardinality(carriers), bufferAfter |-> 0,
                  statusAfter |-> IF threw THEN "SCANNING/DECODING..." ELSE "LISTENING...",
                  listeningBefore |-> listening, listeningAfter |-> listening,
                  window |-> combined],
                 st.appended)

\* (mutant) the run starts one chunk late
ThresholdReachedLate(chunks) == (chunks - 1) * bufferSize >= FS * 2

\* Process every ~2 seconds of audio
ThresholdReached(chunks) == chunks * bufferSize >= FS * 2

\* (mutant) the callback does not look at isListening
onaudioprocessUnguarded(st, chunk, listening) ==
  LET pushed == [st EXCEPT !.buf = Append(@, chunk), !.appended = @ + 1]
  IN  IF ThresholdReached(Len(pushed.buf))
      THEN processAudioBuffer(pushed, listening) ELSE pushed

\* processor.onaudioprocess
onaudioprocess(st, chunk, listening) ==
  IF ~listening THEN st
  ELSE LET pushed == [st EXCEPT !.buf = Append(@, chunk), !.appended = @ + 1]
       IN  IF ThresholdReached(Len(pushed.buf))
           THEN processAudioBuffer(pushed, listening) ELSE pushed

\* One rendered block reaches every script processor that startMicrophone has
\* connected (none is ever disconnected), one callback after the other.
RECURSIVE FanOut(_, _, _, _)
FanOut(st, chunk, listening, k) ==
  IF k = 0 THEN st ELSE FanOut(onaudioprocess(st, chunk, listening), chunk, listening, k - 1)

RInit ==
  /\ isPowered = FALSE
  /\ isUnlocked = FALSE
  /\ isListening = FALSE
  /\ audioBuffer = <<>>
  /\ messages = <<>>
  /\ unlockClicks = 0
  /\ lastClickTime = 0
  /\ modalOpen = FALSE
  /\ rxStatus = "STANDBY"
  /\ processors = 0
  /\ pendingStarts = 0
  /\ framesSent = 0
  /\ passcode = ""
  /\ lastGap = "none"
  /\ burst = NoBurst
  /\ cycle = NoCycle

Forget == burst' = NoBurst /\ cycle' = NoCycle

\* (mutant) stopMicrophone keeps the buffered chunks
stopMicrophoneKeeps(buf) == buf

\* stopMicrophone: this.audioBuffer = []
stopMicrophone(buf) == <<>>

\* togglePower: power-on queues a microphone start when unlocked, power-off
\* stops the microphone
TogglePower ==
  /\ isPowered' = ~isPowered
  /\ IF ~isPowered
     THEN /\ (isUnlocked => pendingStarts < MaxPending)
          /\ pendingStarts' = IF isUnlocked THEN pendingStarts + 1 ELSE pendingStarts
          /\ UNCHANGED <<isListening, audioBuffer, rxStatus>>
     ELSE /\ isListening' = FALSE
          /\ audioBuffer' = stopMicrophone(audioBuffer)
          /\ rxStatus' = "STOPPED"
          /\ UNCHANGED pendingStarts
  /\ burst' = [NoBurst EXCEPT !.discarded = IF isPowered THEN Len(audioBuffer) ELSE 0]
  /\ cycle' = NoCycle
  /\ UNCHANGED <<isUnlocked, messages, unlockClicks, lastClickTime, modalOpen, processors,
                 framesSent, passcode, lastGap>>
  /\ UNCHANGED <<dvars, cvars>>

\* handleSecretClick, dt milliseconds after the previous click (the first
\* click finds lastClickTime = 0, far more than 500 ms before Date.now())
\* (mutant) every click counts, however long after the one before
CountClickAlways(clicks, last, dt) == clicks + 1

\* now - this.lastClickTime < 500 ? unlockClicks + 1 : 1
CountClick(clicks, last, dt) == IF last # 0 /\ dt < ClickWindowMs THEN clicks + 1 ELSE 1

HandleSecretClick(dt) ==
  LET counted == CountClick(unlockClicks, lastClickTime, dt)
  IN  /\ lastClickTime' = 1
      /\ lastGap' = IF lastClickTime # 0 /\ dt < ClickWindowMs THEN "fast" ELSE "slow"
      /\ unlockClicks' = IF counted >= 3 THEN 0 ELSE counted
      /\ modalOpen' = IF counted >= 3 THEN TRUE ELSE modalOpen
      /\ Forget
      /\ UNCHANGED <<isPowered, isUnlocked, isListening, audioBuffer, messages, rxStatus,
                     processors, pendingStarts, framesSent, passcode>>
      /\ UNCHANGED <<dvars, cvars>>

\* the user types into the passcode input of the open modal
TypePasscode(code) ==
  /\ modalOpen
  /\ passcode # code
  /\ passcode' = code
  /\ Forget
  /\ UNCHANGED <<isPowered, isUnlocked, isListening, audioBuffer, messages, unlockClicks,
                 lastClickTime, modalOpen, rxStatus, processors, pendingStarts, framesSent,
                 lastGap>>
  /\ UNCHANGED <<dvars, cvars>>

\* (mutant) any non-empty passcode is accepted
PasscodeMatchesAny(code) == code # ""

\* code === 'DELTA'
PasscodeMatches(code) == code = "DELTA"

\* authenticate (the auth button, or Enter in the passcode input) reading
\* code from the passcode input, and unlock
AuthenticateWith(code) ==
  /\ modalOpen
  /\ IF PasscodeMatches(code)
     THEN /\ modalOpen' = FALSE
          /\ isUnlocked' = TRUE
          /\ (isPowered => pendingStarts < MaxPending)
          /\ pendingStarts' = IF isPowered THEN pendingStarts + 1 ELSE pendingStarts
     ELSE UNCHANGED <<modalOpen, isUnlocked, pendingStarts>>
  /\ passcode' = ""
  /\ Forget
  /\ UNCHANGED <<isPowered, isListening, audioBuffer, messages, unlockClicks, lastClickTime,
                 rxStatus, processors, framesSent, lastGap>>
  /\ UNCHANGED <<dvars, cvars>>

Authenticate == AuthenticateWith(passcode)

\* The passcode typed and submitted in one step: typing changes nothing but
\* the input's value, which only authenticate reads, so every interleaving
\* of other events between the two has the same effect as this step.
SubmitPasscode(code) == passcode = "" /\ AuthenticateWith(code)

\* startMicrophone runs to its end once resume() and getUserMedia have
\* settled: a new script processor is connected and isListening set, or the
\* permission was refused
StartMicrophoneCompletes(granted) ==
  /\ pendingStarts > 0
  /\ pendingStarts' = pendingStarts - 1
  /\ IF granted
     THEN /\ processors < MaxProcessors
          /\ processors' = processors + 1
          /\ isListening' = TRUE
          /\ rxStatus' = "LISTENING..."
     ELSE /\ rxStatus' = "MIC ACCESS DENIED"
          /\ UNCHANGED <<processors, isListening>>
  /\ Forget
  /\ UNCHANGED <<isPowered, isUnlocked, audioBuffer, messages, unlockClicks, lastClickTime,
                 modalOpen, framesSent, passcode, lastGap>>
  /\ UNCHANGED <<dvars, cvars>>

\* The host renders one block of audio
AudioBurst(chunk) ==
  /\ processors > 0
  /\ chunk # Quiet =>
       /\ isListening
       /\ framesSent < MaxFrames
       /\ Len(audioBuffer) < MaxFrameSlot
  /\ framesSent' = IF chunk # Quiet THEN framesSent + 1 ELSE framesSent
  /\ LET st == FanOut(AudioState(audioBuffer, messages, rxStatus, NoCycle, 0),
                      chunk, isListening, processors)
     IN  /\ audioBuffer' = st.buf
         /\ messages' = st.msgs
         /\ rxStatus' = st.status
         /\ cycle' = st.cycle
         /\ burst' = [seen |-> TRUE, listening |-> isListening, appended |-> st.appended,
                      discarded |-> 0]
  /\ UNCHANGED <<isPowered, isUnlocked, isListening, unlockClicks, lastClickTime, modalOpen,
                 processors, pendingStarts, passcode, lastGap>>
  /\ UNCHANGED <<dvars, cvars>>

Next ==
  \/ TogglePower
  \/ \E dt \in {ClickWindowMs - 1, ClickWindowMs} : HandleSecretClick(dt)
  \/ \E code \in {"DELTA", "ALPHA"} : SubmitPasscode(code)
  \/ \E granted \in BOOLEAN : StartMicrophoneCompletes(granted)
  \/ \E chunk \in RxFrames \cup {Quiet} : AudioBurst(chunk)

\* the receiver after construction
Init == RInit /\ DIdle /\ CIdle

Spec == Init /\ [][Next]_vars

\* The access gate on its own: the same receiver with typing and submitting
\* the passcode as separate steps, while the microphone hears no frame.
GateNext ==
  \/ TogglePower
  \/ \E dt \in {ClickWindowMs - 1, ClickWindowMs} : HandleSecretClick(dt)
  \/ \E code \in {"DELTA", "ALPHA"} : TypePasscode(code)
  \/ Authenticate
  \/ \E granted \in BOOLEAN : StartMicrophoneCompletes(granted)
  \/ AudioBurst(Quiet)

SpecGate == Init /\ [][GateNext]_vars

DInit ==
  /\ CIdle
  /\ RInit
  /\ SIdle
  /\ tx \in TxInputs(MaxL)
  /\ stream = Modulate(tx)
  /\ out = NullResult
  /\ outNeg = NullResult
  /\ scan = <<>>
  /\ dpc = {}

\* extractFromAudio on the window
DoExtract ==
  /\ "win" \notin dpc
  /\ out' = ExtractFromAudio(tx, stream, Modulate(DecoyOf(tx)))
  /\ scan' = CarriersTried(tx, stream, Modulate(DecoyOf(tx)))
  /\ dpc' = dpc \cup {"win"}
  /\ UNCHANGED <<tx, stream, outNeg>>
  /\ UNCHANGED <<cvars, rvars, svars>>

\* extractFromAudio on the same window with every sample negated
DoExtractNegated ==
  /\ "win" \in dpc
  /\ "neg" \notin dpc
  /\ tx.variant \in {"default", "heavy"}
  /\ outNeg' = ExtractFromAudio(tx, NegateStream(stream),
                                NegateStream(Modulate(DecoyOf(tx))))
  /\ scan' = CarriersTried(tx, NegateStream(stream), NegateStream(Modulate(DecoyOf(tx))))
  /\ dpc' = dpc \cup {"neg"}
  /\ UNCHANGED <<tx, stream, out>>
  /\ UNCHANGED <<cvars, rvars, svars>>

DNext == DoExtract \/ DoExtractNegated

SpecDecode == DInit /\ [][DNext]_vars

\* ------------------------------------------------------------------------
\* Specification of the synchronizers alone
\* ------------------------------------------------------------------------
MaxLead == 2

\* sync-word bits the channel may have flipped
FlipSites == {1, 16, 32}

Fill(n, b) == [k \in 1..n |-> b]

\* the sync word as received: some bits flipped, the carrier perhaps inverted
ReceivedWord(flips, inv) ==
  [k \in 1..Len(SYNC_WORD) |->
     LET b == IF k \in flips THEN 1 - SYNC_WORD[k] ELSE SYNC_WORD[k]
     IN  IF inv THEN 1 - b ELSE b]

\* lead bits of value fill, the received word (if any), tailLen more bits,
\* and perhaps a second, clean sync word
SyncStream(lead, fill, hasWord, flips, inv, tailLen, second) ==
  Fill(lead, fill)
    \o (IF hasWord THEN ReceivedWord(flips, inv) ELSE <<>>)
    \o Fill(tailLen, 0)
    \o (IF second THEN SYNC_WORD \o <<0>> ELSE <<>>)

SyncVariants == {"default", "heavy"}

SyncCapOf(v) == IF v = "default" THEN SyncCapDefault ELSE SyncCapHeavy

\* Streams with the word within maxLead bits of the start, and streams with
\* the word at the search cap and just before it
SyncInputs(maxLead) ==
  {SyncInput(v, l, hw, IF hw THEN f ELSE {}, hw /\ inv,
             SyncStream(l, fl, hw, f, inv, t, sec)) :
     v \in SyncVariants, l \in 0..maxLead, fl \in {0, 1}, hw \in BOOLEAN,
     f \in SUBSET FlipSites, inv \in BOOLEAN, t \in 0..MaxTail, sec \in BOOLEAN}
  \cup
  {SyncInput(v, l, TRUE, {}, inv, SyncStream(l, 0, TRUE, {}, inv, 1, FALSE)) :
     v \in SyncVariants, l \in {SyncCapDefault - 1, SyncCapDefault,
                                 SyncCapHeavy - 1, SyncCapHeavy},
     inv \in BOOLEAN}

\* Both loops stop at offset limit - 1 and read no more than a sync word's
\* length of bits from the offset they are at.
HighestIndexRead(r, limit) ==
  IF limit <= 0 THEN -1
  ELSE (IF r.found THEN r.index ELSE limit - 1) + Len(SYNC_WORD) - 1

SyncSearch(v, bits) ==
  LET r == IF v = "default" THEN findSyncWord(bits, SYNC_WORD) ELSE HeavySync(bits)
  IN  SyncRun(r, HighestIndexRead(r, Min2(Len(bits) - Len(SYNC_WORD), SyncCapOf(v))))

SInit ==
  /\ CIdle
  /\ RInit
  /\ syncIn \in SyncInputs(MaxLead)
  /\ syncOut = SyncRun(NoSync, -1)
  /\ spc = "call"
  /\ tx = Tx("default", <<>>, 0, {}, <<>>, FALSE, {}, TRUE)
  /\ stream = <<>>
  /\ out = NullResult
  /\ outNeg = NullResult
  /\ scan = <<>>
  /\ dpc = {}

\* the synchronizer runs on the bit stream
DoSync ==
  /\ spc = "call"
  /\ syncOut' = SyncSearch(syncIn.variant, syncIn.bits)
  /\ spc' = "done"
  /\ UNCHANGED <<syncIn, tx, stream, out, outNeg, dpc, scan>>
  /\ UNCHANGED <<cvars, rvars>>

SNext == DoSync

SpecSync == SInit /\ [][SNext]_vars

\* ------------------------------------------------------------------------
\* Decrypt runs
\* ------------------------------------------------------------------------
Builds == {"primary", "nacl"}

CInit ==
  /\ DIdle
  /\ RInit
  /\ blob \in Blobs
  /\ runtime \in Runtimes
  /\ build \in Builds
  /\ ret = NoReturn
  /\ cpc = "call"

\* MilcodecCrypto.decrypt(blob) returns
DoDecrypt ==
  /\ cpc = "call"
  /\ ret' = IF build = "primary" THEN decrypt(blob, runtime) ELSE decryptNaCl(blob, runtime)
  /\ cpc' = "returned"
  /\ UNCHANGED <<blob, runtime, build>>
  /\ UNCHANGED <<dvars, rvars>>

\* the Promise handed back by decrypt fulfils with its record
PromiseSettles ==
  /\ cpc = "returned"
  /\ ret.kind = "promise"
  /\ ret' = [ret EXCEPT !.kind = "settled"]
  /\ cpc' = "settled"
  /\ UNCHANGED <<blob, runtime, build>>
  /\ UNCHANGED <<dvars, rvars>>

CNext == DoDecrypt \/ PromiseSettles

SpecCrypto == CInit /\ [][CNext]_vars

\* ------------------------------------------------------------------------
\* Properties of the extractors
\* ------------------------------------------------------------------------
Extracted == "win" \in dpc

\* The stream handed to the extractor starts with the sync word (in either
\* polarity) and the 16-bit length field tx.lenField, slot for slot.
SyncAligned == tx.silent = {}

\* C1 (as claimed, all three variants): a sync-aligned stream whose length
\* field is 0 or greater than 1024 makes extractFromAudio return null,
\* whatever follows the length field.
C1_LengthBoundAllVariants ==
  (Extracted /\ SyncAligned /\ ~LenInRange(tx.lenField)) => out.isNull

\* The same law for the two extractors that read a length field.
LengthBoundHeavyFsk ==
  (Extracted /\ SyncAligned /\ tx.variant \in {"heavy", "fsk"}
     /\ ~LenInRange(tx.lenField)) => out.isNull

\* What the default extractor does instead: the two length bytes and every
\* whole byte after them come back as payload.
DefaultReturnsLengthBytes ==
  (Extracted /\ SyncAligned /\ tx.variant = "default"
     /\ tx.carrier = FC_DEFAULT /\ tx.decoy = 0)
    => /\ ~out.isNull
       /\ Len(out.bytes) >= 2
       /\ out.bytes[1] * 256 + out.bytes[2] = tx.lenField

\* C2: a well-formed frame SYNC + LEN(L) + three copies of the 8L payload
\* bits, 0 < L, each bit index damaged in at most one copy (flipped, or in the
\* 2-FSK stream undecided), is extracted by the heavy-duty and the 2-FSK
\* extractor as exactly the L payload bytes, packed MSB-first.
C2_MajorityVoteRecovers ==
  (Extracted /\ SyncAligned /\ tx.variant \in {"heavy", "fsk"} /\ tx.cut < 0
     /\ Len(tx.data) >= 1 /\ tx.lenField = Len(tx.data))
    => out = BytesResult(tx.data)

C2_Witness ==
  /\ Extracted
  /\ tx.variant \in {"heavy", "fsk"}
  /\ tx.damage # {}
  /\ Len(tx.data) >= 2
  /\ out = BytesResult(tx.data)

\* C3 (as claimed): the DSSS decoders give the same result on a window and on
\* the window with every sample negated.
C3_CarrierInversion ==
  ({"win", "neg"} \subseteq dpc /\ tx.variant \in {"default", "heavy"})
    => out = outNeg

\* The law does hold for windows in which no slot despreads to exactly 0.
InversionLawWithoutSilence ==
  ({"win", "neg"} \subseteq dpc /\ tx.silent = {}) => out = outNeg

\* the carriers the format prescribes, in scan order
PrescribedScan(autoScanOn) ==
  IF autoScanOn
  THEN <<8000, 9000, 10000, 11000, 12000, 13000, 14000, 15000, 16000, 17000, 18000>>
  ELSE <<12000>>

\* the bit stream demodulated at carrier f of the window of tx
HeardAt(f) ==
  IF f = tx.carrier THEN stream
  ELSE IF f = tx.decoy THEN Modulate(DecoyOf(tx))
  ELSE [k \in 1..Len(stream) |-> 0]

\* the sync word, plain or inverted, is found in the bits of carrier f
SyncAt(f) == findSyncWord(SliceBits(HeardAt(f)), SYNC_WORD).found

\* C20: with auto-scan the default DSSS extractor tries 8, 9, ..., 18 kHz in
\* that order and returns the bytes of the first carrier whose bits contain
\* the sync word (plain or inverted), trying no later carrier; without
\* auto-scan it tries 12 kHz only; it returns null exactly when no tried
\* carrier gives a sync match.
C20_CarrierScanOrder ==
  (dpc = {"win"} /\ tx.variant = "default")
    => LET list == PrescribedScan(tx.autoScan)
           hits == {k \in 1..Len(list) : SyncAt(list[k])}
       IN  /\ out.isNull <=> hits = {}
           /\ hits = {} => scan = list
           /\ hits # {} =>
                LET first == CHOOSE k \in hits : \A j \in hits : k <= j
                IN  /\ scan = SubSeq(list, 1, first)
                    /\ out = ExtractAtCarrier(HeardAt(list[first]))

\* two senders inside the pool: the lower carrier wins and the scan stops
C20_Witness ==
  /\ dpc = {"win"}
  /\ tx.variant = "default"
  /\ tx.autoScan
  /\ tx.carrier = 18000
  /\ tx.decoy = FC_DEFAULT
  /\ scan = <<8000, 9000, 10000, 11000, 12000>>
  /\ ~out.isNull
  /\ out = ExtractAtCarrier(Modulate(DecoyOf(tx)))
  /\ out # ExtractAtCarrier(stream)

\* the symbols heard after the sync word
BitsAfterSync == Len(FrameSymbols(tx)) - Len(SyncOf(tx.variant))

\* C16: in the heavy-duty and 2-FSK extractors a stream with fewer than 16
\* bits after the sync word, or fewer than 8 * L * 3 bits after the length
\* field L, gives null; and when bytes come back, the length field and the
\* three payload copies that were read lie inside the stream.
C16_Truncation ==
  (Extracted /\ SyncAligned /\ tx.variant \in {"heavy", "fsk"})
    => /\ (\/ BitsAfterSync < LenFieldBits
           \/ BitsAfterSync - LenFieldBits < 8 * tx.lenField * 3) => out.isNull
       /\ ~out.isNull =>
            /\ LenFieldBits + 3 * 8 * Len(out.bytes) <= BitsAfterSync
            /\ Len(out.bytes) = tx.lenField

C16_Witness ==
  /\ Extracted
  /\ tx.variant \in {"heavy", "fsk"}
  /\ tx.cut >= LenFieldBits
  /\ LenInRange(tx.lenField)
  /\ BitsAfterSync - LenFieldBits = 8 * tx.lenField * 3 - 1
  /\ out.isNull

\* ------------------------------------------------------------------------
\* Properties of the synchronizers
\* ------------------------------------------------------------------------
SyncEpsOf(v) == IF v = "default" THEN 0 ELSE SyncEpsHeavy

\* Hamming distance of bits[i .. i + |word|) to word (offsets from 0)
Hamming(bits, i, word) == Cardinality({j \in 1..Len(word) : bits[i + j] # word[j]})

\* the offsets in [0, min(len - |sync|, cap)) within eps of the sync word or
\* of its complement
SyncOffsets(v, bits) ==
  {i \in 0..(Min2(Len(bits) - Len(SYNC_WORD), SyncCapOf(v)) - 1) :
     \/ Hamming(bits, i, SYNC_WORD) <= SyncEpsOf(v)
     \/ Hamming(bits, i, InvWord(SYNC_WORD)) <= SyncEpsOf(v)}

Decrypted == cpc \in {"returned", "settled"}

\* no key opens the blob: it was never sealed, or was altered after sealing
TagFails == ~(blob.envelope.kind = "sealed" /\ blob.envelope.intact)

\* the page loaded tweetnacl and runs in a secure context
NormalRuntime == runtime = [nacl |-> TRUE, subtle |-> TRUE]

\* C4 (as claimed): a payload of at least 28 bytes whose tag does not verify
\* makes decrypt return the record status = ERROR, content = "Decryption
\* failed" (stated for the first MilcodecCrypto in a normal runtime).
C4_AuthFailureRecord ==
  (cpc = "returned" /\ build = "primary" /\ NormalRuntime
     /\ BlobLen(blob) >= MinBlobLen /\ TagFails)
    => /\ ret.kind = "record"
       /\ ret.rec.status = Str("ERROR")
       /\ ret.rec.content = Str("Decryption failed")

\* What does hold: nothing of the plaintext comes back, and once the Promise
\* has settled the value is an ERROR record.
AuthFailureNeverOk ==
  (Decrypted /\ BlobLen(blob) >= MinBlobLen /\ TagFails)
    => /\ ret.rec.status = Str("ERROR")
       /\ ret.rec.content \in {Str("Decryption failed"), Str("Too short"),
                               Str("ChaCha20 not supported in this browser"),
                               Str("Web Crypto failed"), Str("Error: nacl is not defined")}

\* C5 (as claimed): when fewer than 28 bytes remain after the FEC strip,
\* decrypt returns ERROR / "Corrupt Data" and invokes no cipher.
C5_CorruptDataAfterStrip ==
  (cpc = "returned" /\ build = "primary" /\ NormalRuntime
     /\ fecDecodedLen(BlobLen(blob)) < MinBlobLen)
    => /\ ret.kind = "record"
       /\ ret.rec.status = Str("ERROR")
       /\ ret.rec.content = Str("Corrupt Data")
       /\ ret.calls = <<>>

\* The check the code does make is on the length before the strip.
CorruptDataBeforeStrip ==
  (cpc = "returned" /\ build = "primary" /\ BlobLen(blob) < MinBlobLen)
    => /\ ret = Returned("record", errorResult("Corrupt Data"), <<>>)

\* the domains the Message Record is specified over
PriorityDomain == {Str("ROUTINE"), Str("PRIORITY"), Str("IMMEDIATE"), Str("FLASH")}
MsgTypeDomain == {Str("TEXT"), Str("LOCATION"), Str("FILE"), Str("IMAGE"), Str("ACK")}
StatusDomain == {Str("OK"), Str("ERROR")}

\* decrypt authenticated the envelope and returned what it unwrapped
Unwrapped ==
  /\ cpc = "returned"
  /\ ret.kind = "record"
  /\ ret.calls = <<"secretbox">>
  /\ IF build = "primary"
     THEN SecretboxOpens(blob, fecDecodedLen(BlobLen(blob)), NonceLenPrimary)
     ELSE SecretboxOpens(blob, BlobLen(blob), NonceLenNaCl)

\* C12 (as claimed): every record decrypt returns for an authenticated
\* plaintext has priority, msg_type and status inside their domains and
\* verified = false.
C12_RecordDomain ==
  (Unwrapped /\ NormalRuntime)
    => /\ ret.rec.priority \in PriorityDomain
       /\ ret.rec.msgType \in MsgTypeDomain
       /\ ret.rec.status \in StatusDomain
       /\ ret.rec.verified = JsFalse

\* What holds of unpackPacket: all but the priority, which is whatever
\* truthy value the JSON carries in p.
RecordDomainButPriority ==
  (Unwrapped /\ build = "primary")
    => /\ ret.rec.msgType \in MsgTypeDomain
       /\ ret.rec.status \in StatusDomain
       /\ ret.rec.verified = JsFalse
       /\ ret.rec.priority \in PriorityDomain \cup {blob.envelope.packet.json.p}

\* a key that is missing from the JSON object (or null): what ?? falls back on
Absent(x) == x \in {Undefined, JsNull}

\* the content the packet format prescribes for a well-formed JSON object
PrescribedContent(packet) ==
  LET data == packet.json
  IN  IF MsgTypeOf(packet.typeByte) \in {"FILE", "IMAGE"}
      THEN Str("File: " \o (IF Absent(data.f) THEN "unknown" ELSE ToText(data.f)))
      ELSE IF Absent(data.m) THEN Str("") ELSE data.m

\* an authenticated plaintext of at least 65 bytes with a JSON object body,
\* unwrapped by the first MilcodecCrypto
UnwrappedObject ==
  /\ Unwrapped
  /\ build = "primary"
  /\ blob.envelope.packet.len >= PacketHeaderLen
  /\ blob.envelope.packet.json.kind = "object"

\* C13 (as claimed): such a plaintext gives status OK, msg_type by the type
\* byte table (any other byte: TEXT), content json.m (or "" when m is
\* absent) for TEXT/LOCATION/ACK and "File: " + json.f (or "File: unknown"
\* when f is absent) for FILE/IMAGE.
C13_PacketUnwrap ==
  UnwrappedObject
    => /\ ret.rec.status = Str("OK")
       /\ ret.rec.msgType = Str(MsgTypeOf(blob.envelope.packet.typeByte))
       /\ ret.rec.content = PrescribedContent(blob.envelope.packet)

\* It holds for the bodies whose m and f are absent or truthy: the code
\* falls back with || where the format says "absent".
PacketUnwrapTruthyFields ==
  (UnwrappedObject
     /\ (Absent(blob.envelope.packet.json.m) \/ Truthy(blob.envelope.packet.json.m))
     /\ (Absent(blob.envelope.packet.json.f) \/ Truthy(blob.envelope.packet.json.f)))
    => /\ ret.rec.status = Str("OK")
       /\ ret.rec.msgType = Str(MsgTypeOf(blob.envelope.packet.typeByte))
       /\ ret.rec.content = PrescribedContent(blob.envelope.packet)

\* the record is the ERROR record with this content
IsErrorRecord(rec, message) ==
  /\ rec.status = Str("ERROR")
  /\ rec.content = Str(message)
  /\ rec.priority = Str("ROUTINE")
  /\ rec.msgType = Str("TEXT")
  /\ rec.verified = JsFalse

\* C14 (as claimed, both MilcodecCrypto objects): an authenticated plaintext
\* shorter than 65 bytes gives the ERROR record "Invalid packet", one of at
\* least 65 bytes whose JSON text does not parse gives the ERROR record
\* "JSON parse failed", both with priority ROUTINE, msg_type TEXT and
\* verified false.
C14_MalformedPlaintext ==
  (Unwrapped /\ NormalRuntime)
    => /\ blob.envelope.packet.len < PacketHeaderLen
            => IsErrorRecord(ret.rec, "Invalid packet")
       /\ (blob.envelope.packet.len >= PacketHeaderLen
              /\ blob.envelope.packet.json.kind = "malformed")
            => IsErrorRecord(ret.rec, "JSON parse failed")

\* unpackPacket of the first MilcodecCrypto does so.
MalformedPlaintextPrimary == build = "primary" => C14_MalformedPlaintext

\* the bytes the FEC strip is specified to leave: the blob without its
\* parity trailer when it has one and is longer than 32 bytes, else the blob
PrescribedStripLen(b) ==
  IF BlobLen(b) > RS_SYMBOLS /\ b.trailer = RS_SYMBOLS THEN BlobLen(b) - RS_SYMBOLS
  ELSE BlobLen(b)

\* an intact envelope of the cipher decrypt opens, sealing a packet that
\* unwraps to an OK record
ValidEnvelope(b) ==
  /\ b.envelope.kind = "sealed"
  /\ b.envelope.cipher = "secretbox"
  /\ b.envelope.layout = "n12"
  /\ b.envelope.intact
  /\ unpackPacket(b.envelope.packet).status = Str("OK")

\* C17 (as claimed): for a blob of at least 28 bytes, decrypt parses as nonce
\* and ciphertext the blob without its last 32 bytes when it is longer than
\* 32 bytes and ends in 32 parity bytes, and the whole blob otherwise; so a
\* valid envelope gives the same OK record with and without the trailer.
C17_FecStrip ==
  (cpc = "returned" /\ build = "primary" /\ runtime.nacl /\ BlobLen(blob) >= MinBlobLen)
    => /\ fecDecodedLen(BlobLen(blob)) = PrescribedStripLen(blob)
       /\ ValidEnvelope(blob)
            => ret = Returned("record", unpackPacket(blob.envelope.packet), <<"secretbox">>)

\* What holds: a valid envelope followed by the 32-byte trailer decrypts to
\* its OK record, and every blob of more than 32 bytes loses its last 32.
FecStripWithTrailer ==
  (cpc = "returned" /\ build = "primary" /\ runtime.nacl /\ BlobLen(blob) >= MinBlobLen)
    => /\ fecDecodedLen(BlobLen(blob)) =
            (IF BlobLen(blob) > RS_SYMBOLS THEN BlobLen(blob) - RS_SYMBOLS ELSE BlobLen(blob))
       /\ (ValidEnvelope(blob) /\ blob.trailer = RS_SYMBOLS)
            => ret = Returned("record", unpackPacket(blob.envelope.packet), <<"secretbox">>)

\* the first n bytes of blob b are an intact ChaCha20-Poly1305 envelope
\* (12-byte nonce, ciphertext, 16-byte tag)
ChaChaVerifies(b, n) ==
  /\ b.envelope.kind = "sealed"
  /\ b.envelope.cipher = "chacha"
  /\ b.envelope.layout = "n12"
  /\ b.envelope.intact
  /\ b.envelope.len = n

\* the call reached the cipher step
CipherStep ==
  /\ cpc \in {"returned", "settled"}
  /\ build = "primary"
  /\ NormalRuntime
  /\ BlobLen(blob) >= MinBlobLen

\* C18 (as claimed): a decrypt call that reaches the cipher step attempts
\* ChaCha20-Poly1305 (the Web Crypto path) first and secretbox only after
\* that attempt has failed; a blob that verifies under ChaCha20-Poly1305
\* gives its plaintext record and secretbox is not consulted.
C18_CipherOrder ==
  CipherStep
    => /\ Head(ret.calls) = "webcrypto"
       /\ ChaChaVerifies(blob, fecDecodedLen(BlobLen(blob)))
            => /\ ret.rec = unpackPacket(blob.envelope.packet)
               /\ ret.calls = <<"webcrypto">>

\* What the code does: secretbox is attempted first, the Web Crypto path only
\* after secretbox has failed, and that path never yields a plaintext.
SecretboxFirst ==
  CipherStep
    => /\ Head(ret.calls) = "secretbox"
       /\ ret.calls \in {<<"secretbox">>, <<"secretbox", "webcrypto">>}
       /\ (ret.calls = <<"secretbox", "webcrypto">>)
            <=> ~SecretboxOpens(blob, fecDecodedLen(BlobLen(blob)), NonceLenPrimary)
       /\ "webcrypto" \in {ret.calls[i] : i \in DOMAIN ret.calls}
            => ret.rec = errorResult("ChaCha20 not supported in this browser")

\* ------------------------------------------------------------------------
\* Properties of the receiver
\* ------------------------------------------------------------------------
\* C6: one run of processAudioBuffer (one audio callback) puts at most one
\* message into the messages list, also when the window locks on several
\* carriers.
C6_AtMostOneMessagePerCycle == [][Len(messages') <= Len(messages) + 1]_vars

C6_Witness ==
  /\ cycle.ran
  /\ cycle.locks >= 2
  /\ Len(cycle.delivered) = 1
  /\ Len(messages) = 1

\* C7 (as claimed): a cycle that extracted a payload whose decryption or
\* unwrapping failed delivers a record with status ERROR to the consumer.
C7_ErrorsSurfaceAsRecords ==
  (cycle.ran /\ cycle.extracted /\ ~StatusIsOk(cycle.ret))
    => cycle.delivered = <<Str("ERROR")>>

\* What the code does: only OK records reach addMessage.
OnlyOkDelivered ==
  cycle.ran => \A i \in 1..Len(cycle.delivered) : cycle.delivered[i] = Str("OK")

\* C8 (as claimed): however often the microphone was started and stopped, an
\* audio burst appends exactly one chunk while listening (and none otherwise).
C8_StartStopIdempotent ==
  burst.seen => burst.appended = (IF burst.listening THEN 1 ELSE 0)

\* C9: whenever listening is false the sample buffer is empty (a stop empties
\* it in the same step), and a burst that arrives while listening is false
\* appends nothing and starts no decode run.
C9_Cancellation ==
  /\ ~isListening => audioBuffer = <<>>
  /\ (burst.seen /\ ~burst.listening) => (burst.appended = 0 /\ ~cycle.ran)

C9_Witness ==
  /\ ~isListening
  /\ burst.discarded > 0
  /\ audioBuffer = <<>>

\* the least number of chunks holding two seconds of audio (22)
ChunksPerWindow == (2 * FS + bufferSize - 1) \div bufferSize

\* n copies of a chunk
Copies(chunk, n) == [i \in 1..n |-> chunk]

\* C19: while listening every callback appends its chunk in arrival order; a
\* decode run starts exactly in the callback that brings the buffer to
\* 22 chunks (22 * 4096 >= 2 * 44100), the decoder gets the buffered chunks
\* concatenated in arrival order, and the buffer is emptied before
\* demodulation, so that after every callback it holds fewer than 22 chunks.
C19_CaptureThreshold ==
  [][(burst'.seen /\ burst'.listening)
       => LET total == Len(audioBuffer) + burst'.appended
              heard == cycle'.window \o audioBuffer'
          IN  /\ burst'.appended >= 1
              /\ Len(audioBuffer') < ChunksPerWindow
              /\ cycle'.ran <=> total >= ChunksPerWindow
              /\ cycle'.ran => Len(cycle'.window) = ChunksPerWindow
              /\ \E chunk \in RxFrames \cup {Quiet} :
                    heard = audioBuffer \o Copies(chunk, burst'.appended)]_vars

C19_Witness ==
  /\ isListening
  /\ burst.seen
  /\ cycle.ran
  /\ Len(cycle.window) = ChunksPerWindow
  /\ cycle.window[1] = Quiet
  /\ cycle.window[2] # Quiet
  /\ audioBuffer = <<>>

\* C10 (as claimed): every processAudioBuffer run ends without an exception,
\* with a structured record from decrypt, listening unchanged, the buffer
\* empty and the status back to LISTENING.
C10_LoopSurvivesEveryOutcome ==
  cycle.ran =>
    /\ ~cycle.threw
    /\ cycle.extracted =>
         /\ cycle.ret.kind = "record"
         /\ cycle.ret.rec.status \in {Str("OK"), Str("ERROR")}
    /\ cycle.listeningAfter = cycle.listeningBefore
    /\ cycle.bufferAfter = 0
    /\ cycle.statusAfter = "LISTENING..."

\* The part of it that fails only by the exception of addMessage
NoExceptionEscapes == cycle.ran => ~cycle.threw

\* C11: isUnlocked is false at first, never returns to false, and becomes
\* true only in an authenticate call that reads the passcode DELTA; the
\* modal opens only on a click that is the third of a run, it and the click
\* before it each less than 500 ms after their predecessor; an authenticate
\* call with another passcode changes none of isUnlocked, isListening and
\* the buffer.
C11_UnlockSequence ==
  /\ ~isUnlocked
  /\ [][/\ isUnlocked => isUnlocked'
        /\ (isUnlocked' /\ ~isUnlocked) => (passcode = "DELTA" /\ passcode' = "" /\ modalOpen)
        /\ (modalOpen' /\ ~modalOpen)
             => (unlockClicks = 2 /\ lastGap = "fast" /\ lastGap' = "fast")
        /\ (passcode \notin {"", "DELTA"} /\ passcode' = "")
             => UNCHANGED <<isUnlocked, isListening, audioBuffer>>]_vars

C11_Witness ==
  /\ isUnlocked
  /\ ~modalOpen
  /\ lastGap = "fast"
  /\ passcode = ""
  /\ isPowered
  /\ isListening

\* C21 (as claimed): in every reachable state, however power toggles, unlock
\* attempts and the completions of audioContext.resume() / getUserMedia
\* interleave, isListening holds only if isPowered and isUnlocked both hold;
\* so a microphone start that completes after a power-off leaves the
\* receiver not listening.
C21_AccessGate == isListening => (isPowered /\ isUnlocked)

\* What holds: the receiver listens only once unlocked, a power-off stops
\* listening in its own step, and no start is ever requested while the
\* receiver is locked or off; listening without power arises only in the
\* completion of a start that was pending across a power-off.
ListeningOnlyUnlocked ==
  /\ isListening => isUnlocked
  /\ pendingStarts > 0 => isUnlocked
  /\ [][/\ (isPowered /\ ~isPowered') => ~isListening'
        /\ pendingStarts' > pendingStarts => (isPowered' /\ isUnlocked')
        /\ (isListening' /\ ~isPowered' /\ ~(isListening /\ ~isPowered))
             => (pendingStarts' = pendingStarts - 1 /\ ~isPowered)]_vars

====
